---- MODULE Spec2Model ----
(***************************************************************************)
(* Model of the classroom-quiz MCP server: the quiz validator              *)
(* (validate_quiz_parameters), the request orchestrator                    *)
(* (get_service_token, make_authenticated_request), the five tools of      *)
(* server.py and the content reader behind read_content_file_from_URL.     *)
(*                                                                         *)
(* Conventions.                                                            *)
(*  - A Python str or bytes value is a sequence of one-character strings.  *)
(*  - A Python dict is a function whose DOMAIN is the set of keys present. *)
(*  - Marks and points are numbers in thousandths (10000 is 10.0, 9500 is  *)
(*    9.5, the tolerance 0.01 is 10); the arithmetic is exact.             *)
(*  - None is the empty sequence where a number may stand (<<404>> is the  *)
(*    status 404, <<>> is None).                                           *)
(***************************************************************************)
EXTENDS Integers, Sequences, FiniteSets, TLC

VARIABLES
    tool,          \* the tool of the last invocation ("none" before the first)
    args,          \* the arguments of that invocation
    outcome,       \* "returned" or "raised": how the invocation ended
    result,        \* the value it returned, or the exception it raised
    validation,    \* local `validation` of generate_quiz / apply_quiz_revisions
    token,         \* local `token` of make_authenticated_request
    response,      \* local `response`: the backend's or the web server's answer
    effects,       \* the external calls of the invocation, in order
    world,         \* what the outside world did during the invocation
    session,       \* what the backend has been sent over the session so far
    inflight       \* the locals of each invocation that runs concurrently

vars ==
    <<tool, args, outcome, result, validation, token, response, effects, world, session, inflight>>

(***************************************************************************)
(* Bounds of the model.                                                    *)
(***************************************************************************)
MaxQuestions == 2
MaxCalls == 3
MaxInvocations == 2

(***************************************************************************)
(* Python helpers.                                                         *)
(***************************************************************************)
\* dict.get(k, default)
Get(d, k, default) == IF k \in DOMAIN d THEN d[k] ELSE default

Whitespace == {" ", "\n"}

RECURSIVE lstrip(_)
lstrip(s) == IF s # <<>> /\ Head(s) \in Whitespace THEN lstrip(Tail(s)) ELSE s

RECURSIVE rstrip(_)
rstrip(s) ==
    IF s # <<>> /\ s[Len(s)] \in Whitespace THEN rstrip(SubSeq(s, 1, Len(s) - 1)) ELSE s

\* str.strip()
strip(s) == rstrip(lstrip(s))

Abs(x) == IF x < 0 THEN -x ELSE x

\* A JSON value of a question's "point": a number or null.
PyNum(n) == [type |-> "number", v |-> n]
PyNone == [type |-> "NoneType", v |-> 0]

(***************************************************************************)
(* Timestamps.  An ISO-8601 string is kept by its shape: unparsable, naive *)
(* (no offset), with a trailing Z, or with a numeric offset; `local` is    *)
(* the wall-clock time and `off` the UTC offset, both in minutes.          *)
(***************************************************************************)
Stamp(form, local, off) == [form |-> form, local |-> local, off |-> off]

\* datetime.fromisoformat(s.replace('Z', '+00:00'))
fromisoformat(s) ==
    CASE s.form = "invalid" -> [local |-> 0, off |-> 0, ok |-> FALSE, aware |-> FALSE]
      [] s.form = "naive"   -> [local |-> s.local, off |-> 0, ok |-> TRUE, aware |-> FALSE]
      [] s.form = "Z"       -> [local |-> s.local, off |-> 0, ok |-> TRUE, aware |-> TRUE]
      [] OTHER              -> [local |-> s.local, off |-> s.off, ok |-> TRUE, aware |-> TRUE]

\* The instant datetime's comparison orders by: UTC for aware values, the
\* wall clock for naive ones.
Instant(d) == IF d.aware THEN d.local - d.off ELSE d.local

(***************************************************************************)
(* validate_quiz_parameters                                                *)
(***************************************************************************)
Err(rule, q, total, marks) == [rule |-> rule, q |-> q, total |-> total, marks |-> marks]

Tolerance == 10

\* Lines 163-169: the date check; "raise" is the TypeError of comparing a
\* naive with an aware datetime, which `except ValueError` does not catch.
DateCheck(start_at, end_at) ==
    LET start == fromisoformat(start_at)
        end == fromisoformat(end_at)
    IN  IF ~start.ok \/ ~end.ok THEN [raised |-> FALSE, errors |-> <<Err("date_format", 0, 0, 0)>>]
        ELSE IF start.aware # end.aware THEN [raised |-> TRUE, errors |-> <<>>]
        ELSE IF Instant(start) >= Instant(end)
             THEN [raised |-> FALSE, errors |-> <<Err("start_before_end", 0, 0, 0)>>]
             ELSE [raised |-> FALSE, errors |-> <<>>]

\* Lines 177-190: the errors of question q at 0-based position idx.
QuestionErrors(q, idx) ==
    LET options == Get(q, "options", <<>>)
        point == Get(q, "point", PyNum(1000))
    IN  (IF strip(Get(q, "text", <<>>)) = <<>>
            THEN <<Err("text_required", idx + 1, 0, 0)>> ELSE <<>>)
        \o (IF Len(options) < 2
            THEN <<Err("options_min", idx + 1, 0, 0)>> ELSE <<>>)
        \o (IF \/ "correctOptionIndex" \notin DOMAIN q
               \/ q["correctOptionIndex"] < 0
               \/ q["correctOptionIndex"] >= Len(options)
            THEN <<Err("correct_index", idx + 1, 0, 0)>> ELSE <<>>)
        \o (IF point.v <= 0
            THEN <<Err("point_positive", idx + 1, 0, 0)>> ELSE <<>>)

\* Line 189: `point <= 0` raises TypeError when point is not a number.
PointRaises(q) == Get(q, "point", PyNum(1000)).type # "number"

\* Lines 175-191: the loop over the questions, from position i on.
RECURSIVE QuestionLoop(_, _)
QuestionLoop(questions, i) ==
    IF i > Len(questions) THEN [errors |-> <<>>, total_points |-> 0]
    ELSE LET rest == QuestionLoop(questions, i + 1)
         IN  [errors |-> QuestionErrors(questions[i], i - 1) \o rest.errors,
              total_points |-> Get(questions[i], "point", PyNum(1000)).v + rest.total_points]

\* The point-sum check skipped once a question has an error.
QuestionsCheck_sum_only_when_clean(questions, total_marks) ==
    IF questions = <<>> THEN <<Err("questions_required", 0, 0, 0)>>
    ELSE LET loop == QuestionLoop(questions, 1)
         IN  loop.errors
             \o (IF loop.errors = <<>> /\ Abs(loop.total_points - total_marks) > Tolerance
                 THEN <<Err("point_sum", 0, loop.total_points, total_marks)>> ELSE <<>>)

\* The point-sum check without the absolute value.
QuestionsCheck_no_abs(questions, total_marks) ==
    IF questions = <<>> THEN <<Err("questions_required", 0, 0, 0)>>
    ELSE LET loop == QuestionLoop(questions, 1)
         IN  loop.errors
             \o (IF loop.total_points - total_marks > Tolerance
                 THEN <<Err("point_sum", 0, loop.total_points, total_marks)>> ELSE <<>>)

\* Lines 172-194.
QuestionsCheck(questions, total_marks) ==
    IF questions = <<>> THEN <<Err("questions_required", 0, 0, 0)>>
    ELSE LET loop == QuestionLoop(questions, 1)
         IN  loop.errors
             \o (IF Abs(loop.total_points - total_marks) > Tolerance
                 THEN <<Err("point_sum", 0, loop.total_points, total_marks)>> ELSE <<>>)

validate_quiz_parameters(d) ==
    LET dates == DateCheck(d.start_at, d.end_at)
        errors ==
            (IF d.title = <<>> \/ strip(d.title) = <<>>
                THEN <<Err("title_empty", 0, 0, 0)>> ELSE <<>>)
            \o (IF d.total_marks <= 0 THEN <<Err("marks_positive", 0, 0, 0)>> ELSE <<>>)
            \o (IF d.duration_minutes <= 0 THEN <<Err("duration_positive", 0, 0, 0)>> ELSE <<>>)
            \o dates.errors
            \o QuestionsCheck(d.questions, d.total_marks)
            \o (IF d.module_ids = <<>> THEN <<Err("module_required", 0, 0, 0)>> ELSE <<>>)
    IN  IF dates.raised \/ (\E i \in 1..Len(d.questions) : PointRaises(d.questions[i]))
        THEN [raised |-> TRUE, errors |-> <<>>, valid |-> FALSE]
        ELSE [raised |-> FALSE, errors |-> errors, valid |-> Len(errors) = 0]

(***************************************************************************)
(* Inputs of the validator.                                                *)
(***************************************************************************)
GoodOptions == << <<"a">>, <<"b">> >>

Question(text, options, idx, point) ==
    [options |-> options, point |-> point, text |-> text, correctOptionIndex |-> idx]

Q_A == Question(<<"A">>, GoodOptions, 0, PyNum(5000))

Questions ==
    { Q_A,
      Question(<<"B">>, GoodOptions, 1, PyNum(5000)),
      Question(<<"A">>, GoodOptions, 1, PyNum(4500)),
      Question(<<"C">>, GoodOptions, 0, PyNum(4990)),
      Question(<<"C">>, GoodOptions, 0, PyNum(4989)),
      Question(<<" ">>, << <<"a">> >>, 1, PyNum(0)),
      Question(<<"D">>, GoodOptions, 2, PyNum(-500)),
      Question(<<"E">>, GoodOptions, 0, PyNone),
      [options |-> GoodOptions] }

RECURSIVE SeqsUpTo(_, _)
SeqsUpTo(S, n) ==
    IF n = 0 THEN {<<>>}
    ELSE LET shorter == SeqsUpTo(S, n - 1)
         IN  shorter \cup {Append(s, x) : s \in shorter, x \in S}

Titles == {<<" ">>, <<" ", "Q", " ">>}
Marks == {10000, 9500, 0}
Durations == {30, 0}
Stamps == {Stamp("Z", 60, 0), Stamp("Z", 120, 0), Stamp("offset", 150, 60),
           Stamp("naive", 60, 0), Stamp("invalid", 0, 0)}
ModuleIds == {<<>>, <<"m1">>}

Draft(title, marks, duration, start_at, end_at, questions, module_ids) ==
    [start_at |-> start_at,
     end_at |-> end_at,
     questions |-> questions,
     total_marks |-> marks,
     title |-> title,
     duration_minutes |-> duration,
     module_ids |-> module_ids]

Drafts ==
    {Draft(t, m, du, s, e, qs, ms) :
        t \in Titles, m \in Marks, du \in Durations, s \in Stamps, e \in Stamps,
        qs \in SeqsUpTo(Questions, MaxQuestions), ms \in ModuleIds}

NoArgs == [none |-> TRUE]
NoValidation == [raised |-> FALSE, errors |-> <<>>, valid |-> FALSE]
NoResult == [kind |-> "none"]
NoEnv == [none |-> TRUE]
NoResponse == [text |-> <<>>, kind |-> "unset", status |-> 0]
NoSession == [calls |-> 0, writes_ok |-> 0, announce_requests |-> 0, announces_ok |-> 0]

\* The invocations a host runtime may run at the same time.
Workers == 1..MaxInvocations

NoCall == [none |-> TRUE]

Idle ==
    [result |-> NoResult,
     token |-> "unset",
     response |-> NoResponse,
     effects |-> <<>>,
     pc |-> "idle",
     call |-> NoCall,
     data |-> <<>>,
     overlapped |-> FALSE]

Init ==
    /\ inflight = [w \in Workers |-> Idle]
    /\ tool = "none"
    /\ args = NoArgs
    /\ outcome = "none"
    /\ result = NoResult
    /\ validation = NoValidation
    /\ token = "unset"
    /\ response = NoResponse
    /\ effects = <<>>
    /\ world = NoEnv
    /\ session = NoSession

(***************************************************************************)
(* The validator alone: one call on one draft.                             *)
(***************************************************************************)
Validate ==
    /\ tool = "none"
    /\ \E d \in Drafts :
        /\ args' = d
        /\ validation' = validate_quiz_parameters(d)
    /\ tool' = "validate_quiz_parameters"
    /\ outcome' = IF validation'.raised THEN "raised" ELSE "returned"
    /\ result' = NoResult
    /\ UNCHANGED <<token, response, effects, world, session, inflight>>

NextValidate == Validate

SpecValidate == Init /\ [][NextValidate]_vars

(***************************************************************************)
(* The request orchestrator.                                               *)
(*                                                                         *)
(* What the outside world does in one invocation is an input `env`:        *)
(*   env.sa_file   whether a service-account file is configured and exists *)
(*   env.token_ok  whether the identity token is issued                    *)
(*   env.backend   the backend's answer: a response with a status and a    *)
(*                 body, or a transport failure                            *)
(***************************************************************************)
BACKEND_BASE_URL == "http://localhost:3000"

DetailsLimit == 1000

NoData == [none |-> TRUE]

Returned(value, tok, resp, eff) ==
    [token |-> tok, response |-> resp, effects |-> eff, raised |-> FALSE, value |-> value]

Raised(exception, tok, resp, eff) ==
    [token |-> tok,
     response |-> resp,
     effects |-> eff,
     raised |-> TRUE,
     value |-> [type |-> exception, kind |-> "exception"]]

\* json.dumps(dict)
JsonText(dict) == [kind |-> "json", value |-> dict]

\* response.text handed back unmodified
RawText(text) == [kind |-> "text", value |-> text]

\* A token fetch that asks the credential source a second time.
get_service_token_twice(env) ==
    LET via == IF env.sa_file THEN "service_account_file" ELSE "metadata_server"
    IN  [token |-> IF env.token_ok THEN "tok" ELSE "unset",
         effects |-> << [via |-> via, op |-> "get_service_token"],
                        [via |-> via, op |-> "get_service_token"] >>,
         raised |-> ~env.token_ok]

\* Lines 66-81: the token, or the exception of the credential library.
get_service_token(env) ==
    LET via == IF env.sa_file THEN "service_account_file" ELSE "metadata_server"
    IN  [token |-> IF env.token_ok THEN "tok" ELSE "unset",
         effects |-> << [via |-> via, op |-> "get_service_token"] >>,
         raised |-> ~env.token_ok]

\* str.upper() on the method names the callers use
upper(method) ==
    CASE method = "get" -> "GET"
      [] method = "post" -> "POST"
      [] method = "put" -> "PUT"
      [] method = "delete" -> "DELETE"
      [] method = "patch" -> "PATCH"
      [] OTHER -> method

SupportedMethods == {"GET", "POST", "PUT", "DELETE"}

\* A status check that takes only the 4xx range for an error.
raise_for_status_client_only(status) == 400 <= status /\ status < 500

\* Response.raise_for_status(): HTTPError for a 4xx or 5xx status only.
raise_for_status(status) == 400 <= status /\ status < 600

\* body[:1000]
Truncate(body, n) == SubSeq(body, 1, IF Len(body) < n THEN Len(body) ELSE n)

\* Lines 119-136: the failure envelope built from a RequestException.
FailureEnvelope(status, body, str_e) ==
    JsonText([status |-> status,
              success |-> FALSE,
              error_code |-> "BACKEND_REQUEST_FAILED",
              message |-> "Request to classroom service failed.",
              details |-> IF body # <<>> THEN Truncate(body, DetailsLimit) ELSE str_e])

\* The request as requests.get/post/put/delete sends it (lines 97-112).
BackendRequest(endpoint, method, session_id, data, tok) ==
    [op |-> "backend",
     method |-> upper(method),
     url |-> <<BACKEND_BASE_URL>> \o endpoint,
     headers |-> [session_id |-> session_id,
                  authentication_service |-> <<"Bearer ", tok>>,
                  content_type |-> "application/json"],
     json |-> IF upper(method) \in {"POST", "PUT"} THEN data ELSE NoData]

\* Lines 83-136.
make_authenticated_request(endpoint, method, session_id, data, env) ==
    LET t == get_service_token(env)
        sent == t.effects \o <<BackendRequest(endpoint, method, session_id, data, t.token)>>
        b == env.backend
    IN  IF t.raised THEN Raised("CredentialError", "unset", NoResponse, t.effects)
        ELSE IF upper(method) \notin SupportedMethods
             THEN Raised("ValueError", t.token, NoResponse, t.effects)
        ELSE IF b.kind = "transport_error"
             THEN Returned(FailureEnvelope(<<>>, <<>>, <<"ConnectionError">>),
                           t.token, NoResponse, sent)
        ELSE IF raise_for_status(b.status)
             THEN Returned(FailureEnvelope(<<b.status>>, b.text, <<"HTTPError">>),
                           t.token, b, sent)
        ELSE Returned(RawText(b.text), t.token, b, sent)

(***************************************************************************)
(* Inputs of the orchestrator.                                             *)
(***************************************************************************)
Statuses == {200, 201, 300, 404, 500}
Bodies == {<<>>, <<"{", "}">>}

BackendAnswers ==
    {[text |-> b, kind |-> "response", status |-> s] : s \in Statuses, b \in Bodies}
    \cup {[text |-> <<>>, kind |-> "transport_error", status |-> 0]}

NoAnswer == [text |-> <<>>, kind |-> "not_asked", status |-> 0]

Envs ==
    [sa_file : BOOLEAN, token_ok : {TRUE}, backend : BackendAnswers]
    \cup [sa_file : BOOLEAN, token_ok : {FALSE}, backend : {NoAnswer}]

Methods == {"GET", "POST", "PUT", "DELETE", "get", "delete", "PATCH"}
Endpoints == {<<"/api/v1/announcements">>, <<"/api/v1/materials/module/", "mod_1">>}
SessionIds == {"sess_1", "sess_2"}

(***************************************************************************)
(* The orchestrator alone: one call of make_authenticated_request.         *)
(***************************************************************************)
Request ==
    /\ tool = "none"
    /\ \E endpoint \in Endpoints, method \in Methods, sid \in SessionIds, e \in Envs :
        LET data == IF upper(method) \in {"POST", "PUT"} THEN [text |-> <<"H", "i">>] ELSE NoData
            r == make_authenticated_request(endpoint, method, sid, data, e)
        IN  /\ args' = [data |-> data,
                        method |-> method,
                        endpoint |-> endpoint,
                        session_id |-> sid]
            /\ world' = e
            /\ outcome' = IF r.raised THEN "raised" ELSE "returned"
            /\ result' = r.value
            /\ token' = r.token
            /\ response' = r.response
            /\ effects' = r.effects
    /\ tool' = "make_authenticated_request"
    /\ UNCHANGED <<validation, session, inflight>>

NextRequest == Request

SpecRequest == Init /\ [][NextRequest]_vars

(***************************************************************************)
(* The tools of server.py, each as the value it hands back (or the         *)
(* exception it lets escape) for its arguments `a` under `env`.            *)
(***************************************************************************)
\* Lines 266-267.
get_the_required_materials_in_a_module(a, env) ==
    make_authenticated_request(<<"/api/v1/materials/module/", a.module_id>>, "GET",
                               a.session_id, NoData, env)

\* Lines 629-640 and 715-726.
QuizPayload(a) ==
    [quiz_details |->
        [questions |-> a.draft.questions,
         title |-> strip(a.draft.title),
         module_ids |-> a.draft.module_ids,
         description |-> strip(a.description),
         totalMarks |-> a.draft.total_marks,
         durationMinutes |-> a.draft.duration_minutes,
         startAt |-> a.draft.start_at,
         endAt |-> a.draft.end_at]]

\* Lines 621-626 and 707-712.
ValidationFailed(v) ==
    JsonText([success |-> FALSE, details |-> v.errors, error |-> "Validation failed"])

\* generate_quiz without the early return on a failed validation.
generate_quiz_unchecked(a, env) ==
    make_authenticated_request(<<"/api/v1/quizzes/from-details">>, "POST",
                               a.session_id, QuizPayload(a), env)

\* Lines 616-643.
generate_quiz(a, env) ==
    LET v == validate_quiz_parameters(a.draft)
    IN  IF v.raised THEN Raised("TypeError", "unset", NoResponse, <<>>)
        ELSE IF ~v.valid THEN Returned(ValidationFailed(v), "unset", NoResponse, <<>>)
        ELSE make_authenticated_request(<<"/api/v1/quizzes/from-details">>, "POST",
                                        a.session_id, QuizPayload(a), env)

\* Lines 702-729.
apply_quiz_revisions(a, env) ==
    LET v == validate_quiz_parameters(a.draft)
    IN  IF v.raised THEN Raised("TypeError", "unset", NoResponse, <<>>)
        ELSE IF ~v.valid THEN Returned(ValidationFailed(v), "unset", NoResponse, <<>>)
        ELSE make_authenticated_request(<<"/api/v1/quizzes/from-details/", a.quiz_id>>, "PUT",
                                        a.session_id, QuizPayload(a), env)

\* json.loads: a JSONDecodeError for text that is no JSON, else the value.
json_loads(text) ==
    IF text.json = "invalid" THEN [type |-> "none", raised |-> TRUE, value |-> NoData]
    ELSE [type |-> text.json, raised |-> FALSE, value |-> text.value]

\* Python truthiness of a str
Truthy(s) == s # <<>>

\* Lines 787-793.
AnnouncementPayload(a, details) ==
    IF Truthy(Get(details, "quiz_id", <<>>))
    THEN [text |-> details["text"], group |-> a.group_id, quiz |-> details["quiz_id"]]
    ELSE [text |-> details["text"], group |-> a.group_id]

\* The text check without the strip.
TextMissing_no_strip(text) == ~Truthy(text)

\* Line 781: `not text or not str(text).strip()`.
TextMissing(text) == ~Truthy(text) \/ strip(text) = <<>>

\* Lines 771-803.  A JSON value that is no object has no .get: AttributeError,
\* raised outside both try blocks.
add_group_announcement(a, env) ==
    LET parsed == json_loads(a.announcement_details)
        details == parsed.value
        text == Get(details, "text", <<>>)
        r == make_authenticated_request(<<"/api/v1/announcements">>, "POST", a.session_id,
                                        AnnouncementPayload(a, details), env)
    IN  IF parsed.raised
        THEN Returned(JsonText([success |-> FALSE,
                                details |-> <<"JSONDecodeError">>,
                                error |-> "Invalid announcement details format"]),
                      "unset", NoResponse, <<>>)
        ELSE IF parsed.type # "object" THEN Raised("AttributeError", "unset", NoResponse, <<>>)
        ELSE IF TextMissing(text)
        THEN Returned(JsonText([success |-> FALSE, error |-> "Announcement text is required"]),
                      "unset", NoResponse, <<>>)
        ELSE IF r.raised
        THEN Returned(JsonText([success |-> FALSE,
                                details |-> <<r.value.type>>,
                                error |-> "Failed to create announcement"]),
                      r.token, r.response, r.effects)
        ELSE r

(***************************************************************************)
(* storage_url.py.  A URL is a sequence of tokens: a delimiter (":", "/",  *)
(* "?"), a percent escape ("%2F", "%20") or a run of other characters.     *)
(***************************************************************************)
\* The index of the first token of s at or after i that is in stop, else Len(s) + 1.
RECURSIVE Find(_, _, _)
Find(s, i, stop) ==
    IF i > Len(s) THEN Len(s) + 1
    ELSE IF s[i] \in stop THEN i
    ELSE Find(s, i + 1, stop)

\* str.lower() of one token
lower(t) ==
    CASE t = ".PDF" -> ".pdf"
      [] t = "GS" -> "gs"
      [] t = "Application/PDF" -> "application/pdf"
      [] OTHER -> t

\* urllib.parse.urlsplit: scheme (lower-cased), netloc and path of the URL.
urlsplit(u) ==
    LET has_scheme == Len(u) >= 2 /\ u[2] = ":" /\ u[1] \notin {"/", "?", ":"}
        rest == IF has_scheme THEN SubSeq(u, 3, Len(u)) ELSE u
        has_netloc == Len(rest) >= 2 /\ rest[1] = "/" /\ rest[2] = "/"
        stop == IF has_netloc THEN Find(rest, 3, {"/", "?"}) ELSE 1
        query == Find(rest, stop, {"?"})
    IN  [scheme |-> IF has_scheme THEN lower(u[1]) ELSE "",
         netloc |-> IF has_netloc THEN SubSeq(rest, 3, stop - 1) ELSE <<>>,
         path |-> SubSeq(rest, stop, query - 1)]

\* str.lstrip("/")
RECURSIVE lstrip_slash(_)
lstrip_slash(s) == IF s # <<>> /\ Head(s) = "/" THEN lstrip_slash(Tail(s)) ELSE s

\* str.split("/")
RECURSIVE split(_)
split(s) ==
    LET cut == Find(s, 1, {"/"})
    IN  IF cut > Len(s) THEN <<s>>
        ELSE <<SubSeq(s, 1, cut - 1)>> \o split(SubSeq(s, cut + 1, Len(s)))

\* "/".join(parts)
RECURSIVE join(_)
join(parts) ==
    IF parts = <<>> THEN <<>>
    ELSE IF Len(parts) = 1 THEN parts[1]
    ELSE parts[1] \o <<"/">> \o join(Tail(parts))

\* The key taken as written, not percent-decoded.
unquote_nothing(s) == s

\* urllib.parse.unquote
unquote(s) ==
    [i \in 1..Len(s) |-> CASE s[i] = "%2F" -> "/" [] s[i] = "%20" -> " " [] OTHER -> s[i]]

Located(bucket, blob) == [none |-> FALSE, bucket |-> bucket, blob |-> blob]
NotStorage == [none |-> TRUE, bucket |-> <<>>, blob |-> <<>>]

\* Lines 3-26 of storage_url.py.
parse_storage_url(file_url) ==
    LET u == urlsplit(file_url)
        host == u.netloc
        path == lstrip_slash(u.path)
        parts == IF path # <<>> THEN split(path) ELSE <<>>
    IN  IF u.scheme = "gs" THEN Located(u.netloc, lstrip_slash(u.path))
        ELSE IF host = <<"storage.googleapis.com">> /\ Len(parts) >= 2
             THEN Located(parts[1], join(Tail(parts)))
        ELSE IF host = <<"storage.cloud.google.com">> /\ Len(parts) >= 2
             THEN Located(parts[1], join(Tail(parts)))
        ELSE IF /\ host = <<"firebasestorage.googleapis.com">>
                /\ Len(parts) >= 5
                /\ parts[1] = <<"v0">> /\ parts[2] = <<"b">> /\ parts[4] = <<"o">>
             THEN Located(parts[3], unquote(join(SubSeq(parts, 5, Len(parts)))))
        ELSE NotStorage

(***************************************************************************)
(* pdf_utils.py and content_reader.py.  bytes are sequences of one-byte    *)
(* tokens; "xFF" is a byte that is not valid UTF-8.                        *)
(*                                                                         *)
(*   env.storage  the storage client's behaviour: it cannot be built, the  *)
(*                download fails, or the object's bytes                    *)
(*   env.http     the web server's answer to requests.get                  *)
(*   env.pdf      what PdfReader makes of the bytes: it raises, or the     *)
(*                texts of the pages (empty for a page without text)       *)
(***************************************************************************)
\* "\n\n".join(out)
RECURSIVE join_pages(_)
join_pages(out) ==
    IF out = <<>> THEN <<>>
    ELSE IF Len(out) = 1 THEN out[1]
    ELSE out[1] \o <<"\n", "\n">> \o join_pages(Tail(out))

\* Lines 3-10 of pdf_utils.py.
extract_pdf_text(pdf) ==
    IF pdf.kind = "raises" THEN [raised |-> TRUE, text |-> <<>>]
    ELSE [raised |-> FALSE, text |-> strip(join_pages(pdf.pages))]

\* Line 7 of content_reader.py.
is_pdf_bytes(b) == Len(b) >= 4 /\ SubSeq(b, 1, 4) = <<"%", "P", "D", "F">>

InvalidUtf8 == {"xFF"}

\* Lines 23-26 and 39-42: bytes.decode("utf-8"), then with errors="replace".
decode(b) ==
    IF \A i \in 1..Len(b) : b[i] \notin InvalidUtf8 THEN b
    ELSE [i \in 1..Len(b) |-> IF b[i] \in InvalidUtf8 THEN "U+FFFD" ELSE b[i]]

\* The suffix compared without lower-casing the URL.
ends_with_pdf_as_written(file_url) == file_url # <<>> /\ file_url[Len(file_url)] = ".pdf"

\* file_url.lower().endswith(".pdf")
ends_with_pdf(file_url) == file_url # <<>> /\ lower(file_url[Len(file_url)]) = ".pdf"

\* resp.headers.get("Content-Type", "").lower().startswith("application/pdf")
is_pdf_content_type(headers) ==
    LET ct == Get(headers, "Content-Type", <<>>)
    IN  ct # <<>> /\ lower(ct[1]) = "application/pdf"

\* An empty extraction returned as it is, without falling back to the bytes.
text_of_keeps_empty(data, try_pdf, pdf) ==
    LET x == extract_pdf_text(pdf)
    IN  IF try_pdf /\ ~x.raised THEN x.text ELSE decode(data)

\* Lines 16-26 and 32-42: extraction when asked for, else the decoded bytes.
text_of(data, try_pdf, pdf) ==
    LET x == extract_pdf_text(pdf)
    IN  IF try_pdf /\ ~x.raised /\ x.text # <<>> THEN x.text ELSE decode(data)

\* Lines 17-18 and 33-34: the call of extract_pdf_text, when made.
extraction(try_pdf) == IF try_pdf THEN << [op |-> "pdf_extract"] >> ELSE <<>>

\* Lines 9-42 of content_reader.py.
content_reader_read(file_url, env) ==
    LET loc == parse_storage_url(file_url)
        st == env.storage
        h == env.http
        download == << [op |-> "storage_read", bucket |-> loc.bucket, blob |-> loc.blob] >>
        get == << [op |-> "http_get", url |-> file_url, timeout |-> 30] >>
        storage_pdf == is_pdf_bytes(st.data) \/ ends_with_pdf(file_url)
        http_pdf == \/ is_pdf_content_type(h.headers)
                    \/ ends_with_pdf(file_url)
                    \/ is_pdf_bytes(h.content)
    IN  IF ~loc.none /\ loc.bucket # <<>> /\ loc.blob # <<>>
        THEN IF st.kind = "client_error"
             THEN Raised("DefaultCredentialsError", "unset", NoResponse, <<>>)
             ELSE IF st.kind = "download_error"
             THEN Raised("NotFound", "unset", NoResponse, download)
             ELSE Returned(RawText(text_of(st.data, storage_pdf, env.pdf)),
                           "unset", NoResponse, download \o extraction(storage_pdf))
        ELSE IF urlsplit(file_url).scheme \notin {"http", "https"}
             THEN Raised("InvalidSchema", "unset", NoResponse, <<>>)
             ELSE IF h.kind = "transport_error"
             THEN Raised("ConnectionError", "unset", NoResponse, get)
             ELSE IF raise_for_status(h.status)
             THEN Raised("HTTPError", "unset", h, get)
             ELSE Returned(RawText(text_of(h.content, http_pdf, env.pdf)),
                           "unset", h, get \o extraction(http_pdf))

\* The tool without its try/except.
read_content_file_from_URL_uncaught(a, env) == content_reader_read(a.file_url, env)

\* Lines 315-318 of server.py.
read_content_file_from_URL(a, env) ==
    LET r == content_reader_read(a.file_url, env)
    IN  IF r.raised
        THEN Returned(RawText(<<"Error reading file: ", r.value.type>>),
                      r.token, r.response, r.effects)
        ELSE r

(***************************************************************************)
(* Inputs of the content reader.                                           *)
(***************************************************************************)
\* The four ways of writing an object-storage reference.  A key is written
\* as it is, except in a Firebase URL, which percent-encodes it.
StorageShapes == {"gs", "storage.googleapis.com", "storage.cloud.google.com", "firebase"}

Buckets == {<<"bucket1">>}

VerbatimKeys ==
    { <<"notes", ".txt">>,
      <<"path", "/", "file", ".pdf">>,
      <<"dir", "/", "/", "my", "%20", "file">> }

FirebaseKeys ==
    { <<"notes", ".txt">>,
      <<"path", "/", "file", ".pdf">>,
      <<"dir", "/", "my", " ", "file">> }

KeysOf(shape) == IF shape = "firebase" THEN FirebaseKeys ELSE VerbatimKeys

\* Percent-encoding as the Firebase console writes a key into a URL.
quote(s) ==
    [i \in 1..Len(s) |-> CASE s[i] = "/" -> "%2F" [] s[i] = " " -> "%20" [] OTHER -> s[i]]

ShapeUrl(shape, bucket, key) ==
    CASE shape = "gs" -> <<"gs", ":", "/", "/">> \o bucket \o <<"/">> \o key
      [] shape = "firebase" ->
            <<"https", ":", "/", "/", "firebasestorage.googleapis.com", "/", "v0", "/", "b", "/">>
            \o bucket \o <<"/", "o", "/">> \o quote(key)
      [] OTHER -> <<"https", ":", "/", "/", shape, "/">> \o bucket \o <<"/">> \o key

StorageUrls == {ShapeUrl(s, b, k) : s \in StorageShapes \ {"firebase"}, b \in Buckets, k \in VerbatimKeys}
               \cup {ShapeUrl("firebase", b, k) : b \in Buckets, k \in FirebaseKeys}

OtherUrls ==
    { <<"gs", ":", "/", "/", "bucket1", "/", "path", "/", "file", ".pdf">>,
      <<"GS", ":", "/", "/", "bucket1", "/", "notes", ".txt">>,
      <<"gs", ":", "/", "/", "bucket1">>,
      <<"https", ":", "/", "/", "storage.googleapis.com", "/", "bucket1", "/", "path", "/",
        "file", ".PDF">>,
      <<"https", ":", "/", "/", "storage.googleapis.com", "/", "bucket1", "/">>,
      <<"https", ":", "/", "/", "storage.googleapis.com", "/", "bucket1">>,
      <<"https", ":", "/", "/", "storage.cloud.google.com", "/", "bucket1", "/", "notes",
        ".txt">>,
      <<"https", ":", "/", "/", "firebasestorage.googleapis.com", "/", "v0", "/", "b", "/",
        "bucket1", "/", "o", "/", "path", "%2F", "file", ".pdf", "?", "alt=media">>,
      <<"https", ":", "/", "/", "example.com", "/", "doc", ".txt">>,
      <<"https", ":", "/", "/", "example.com", "/", "doc", ".pdf">> }

Urls == OtherUrls \cup StorageUrls

Datas == { <<"%", "P", "D", "F", "-">>, <<"%", "P", "D">>, <<"h", "i">>, <<"h", "xFF">> }

Headers ==
    { [k \in {} |-> <<>>],
      [k \in {"Content-Type"} |-> <<"text/plain">>],
      [k \in {"Content-Type"} |-> <<"Application/PDF", "; charset=binary">>] }

Pdfs ==
    { [kind |-> "raises", pages |-> <<>>],
      [kind |-> "pages", pages |-> <<>>],
      [kind |-> "pages", pages |-> << <<"\n">>, <<>> >>],
      [kind |-> "pages", pages |-> << <<"t", "1">>, <<" ", "t", "2", " ">> >>] }

StorageAnswers ==
    { [kind |-> "client_error", data |-> <<>>], [kind |-> "download_error", data |-> <<>>] }
    \cup {[kind |-> "data", data |-> d] : d \in Datas}

HttpAnswers ==
    { [kind |-> "transport_error", status |-> 0, headers |-> [k \in {} |-> <<>>], content |-> <<>>] }
    \cup {[kind |-> "response", status |-> st, headers |-> h, content |-> d] :
            st \in {200, 300, 404}, d \in Datas, h \in Headers}

\* One of the two is asked in an invocation; the other keeps its first value.
ReadEnvs ==
    [pdf : Pdfs,
     storage : StorageAnswers,
     http : {[kind |-> "transport_error",
              status |-> 0,
              headers |-> [k \in {} |-> <<>>],
              content |-> <<>>]}]
    \cup [pdf : Pdfs, storage : {[kind |-> "client_error", data |-> <<>>]}, http : HttpAnswers]

(***************************************************************************)
(* The content reader alone: one call of the read-content tool.            *)
(***************************************************************************)
ReadDone(a, e, r) ==
    /\ args' = a
    /\ world' = e
    /\ outcome' = IF r.raised THEN "raised" ELSE "returned"
    /\ result' = r.value
    /\ token' = r.token
    /\ response' = r.response
    /\ effects' = r.effects

Read ==
    /\ tool = "none"
    /\ \E url \in Urls, sid \in SessionIds, e \in ReadEnvs :
        ReadDone([session_id |-> sid, file_url |-> url], e,
                 read_content_file_from_URL([session_id |-> sid, file_url |-> url], e))
    /\ tool' = "read_content_file_from_URL"
    /\ UNCHANGED <<validation, session, inflight>>

NextRead == Read

SpecRead == Init /\ [][NextRead]_vars

(***************************************************************************)
(* A session: tool invocations one after the other, in any order the       *)
(* caller likes.  The server keeps nothing between invocations; `session`  *)
(* records what the backend was sent, for the statements about order.      *)
(***************************************************************************)
SessionDrafts ==
    { Draft(<<" ", "Q", " ">>, 10000, 30, Stamp("Z", 60, 0), Stamp("Z", 120, 0),
            <<Q_A, Question(<<"B">>, GoodOptions, 1, PyNum(5000))>>, <<"m1">>),
      Draft(<<" ", "Q", " ">>, 10000, 30, Stamp("Z", 60, 0), Stamp("Z", 120, 0),
            <<Q_A, Question(<<"A">>, GoodOptions, 1, PyNum(4500))>>, <<"m1">>),
      Draft(<<" ">>, 10000, 0, Stamp("Z", 120, 0), Stamp("Z", 60, 0),
            <<Q_A, Question(<<"B">>, GoodOptions, 1, PyNum(5000))>>, <<>>),
      Draft(<<" ", "Q", " ">>, 10000, 30, Stamp("invalid", 0, 0), Stamp("Z", 120, 0),
            <<>>, <<"m1">>),
      Draft(<<" ", "Q", " ">>, 10000, 30, Stamp("naive", 60, 0), Stamp("Z", 120, 0),
            <<Q_A, Question(<<"B">>, GoodOptions, 1, PyNum(5000))>>, <<"m1">>) }

Descriptions == {<<>>, <<" ", "d", " ">>}

\* The part of the inputs a session draws from: every kind of answer, one of each.
SessionEnvs ==
    {e \in Envs : /\ ~e.sa_file
                  /\ e.backend.status \in {0, 200, 300, 404}
                  /\ (e.backend.kind = "response" => e.backend.text # <<>>)}

SessionUrls ==
    { <<"gs", ":", "/", "/", "bucket1", "/", "path", "/", "file", ".pdf">>,
      <<"gs", ":", "/", "/", "bucket1">>,
      <<"https", ":", "/", "/", "example.com", "/", "doc", ".txt">> }

SessionReadEnvs ==
    {e \in ReadEnvs : /\ e.pdf.pages \in {<<>>, << <<"t", "1">>, <<" ", "t", "2", " ">> >>}
                      /\ e.storage.data \in {<<>>, <<"%", "P", "D", "F", "-">>, <<"h", "xFF">>}
                      /\ e.http.content \in {<<>>, <<"%", "P", "D", "F", "-">>, <<"h", "xFF">>}
                      /\ e.http.status \in {0, 200, 404}
                      /\ DOMAIN e.http.headers = {}}

SessionId == "sess_1"

JsonObject(dict) == [value |-> dict, json |-> "object"]

AnnouncementDetails ==
    { [value |-> NoData, json |-> "invalid"],
      [value |-> <<>>, json |-> "array"],
      [value |-> NoData, json |-> "null"],
      [value |-> NoData, json |-> "number"],
      JsonObject([text |-> <<"H", "i">>]),
      JsonObject([text |-> <<"H", "i">>, quiz_id |-> <<"quiz_1">>]),
      JsonObject([text |-> <<"H", "i">>, quiz_id |-> <<>>]),
      JsonObject([text |-> <<" ">>, quiz_id |-> <<"quiz_1">>]),
      JsonObject([text |-> <<>>]),
      JsonObject([quiz_id |-> <<"quiz_1">>]) }

Success2xx(status) == 200 <= status /\ status < 300

Count(eff, op) == Cardinality({i \in 1..Len(eff) : eff[i].op = op})

\* What the backend has been sent once tool t has ended as r.
SessionAfter(t, r) ==
    LET sent == Count(r.effects, "backend") > 0
        ok == sent /\ r.response.kind = "response" /\ Success2xx(r.response.status)
        write == t \in {"generate_quiz", "apply_quiz_revisions"}
        announce == t = "add_group_announcement"
    IN  [calls |-> session.calls + 1,
         writes_ok |-> session.writes_ok + (IF write /\ ok THEN 1 ELSE 0),
         announce_requests |-> session.announce_requests + (IF announce /\ sent THEN 1 ELSE 0),
         announces_ok |-> session.announces_ok + (IF announce /\ ok THEN 1 ELSE 0)]

Invoke(t, a, e, r, v) ==
    /\ session.calls < MaxCalls
    /\ tool' = t
    /\ args' = a
    /\ world' = e
    /\ outcome' = IF r.raised THEN "raised" ELSE "returned"
    /\ result' = r.value
    /\ validation' = v
    /\ token' = r.token
    /\ response' = r.response
    /\ effects' = r.effects
    /\ session' = SessionAfter(t, r)
    /\ UNCHANGED inflight

GetMaterials ==
    \E e \in SessionEnvs :
        LET a == [session_id |-> SessionId, module_id |-> "mod_1"]
        IN  Invoke("get_the_required_materials_in_a_module", a, e,
                   get_the_required_materials_in_a_module(a, e), NoValidation)

ReadContent ==
    \E url \in SessionUrls, e \in SessionReadEnvs :
        LET a == [session_id |-> SessionId, file_url |-> url]
        IN  Invoke("read_content_file_from_URL", a, e,
                   read_content_file_from_URL(a, e), NoValidation)

GenerateQuiz ==
    \E d \in SessionDrafts, desc \in Descriptions, e \in SessionEnvs :
        LET a == [session_id |-> SessionId, draft |-> d, description |-> desc]
        IN  Invoke("generate_quiz", a, e, generate_quiz(a, e), validate_quiz_parameters(d))

ApplyQuizRevisions ==
    \E d \in SessionDrafts, desc \in Descriptions, e \in SessionEnvs :
        LET a == [session_id |-> SessionId,
                  draft |-> d,
                  description |-> desc,
                  quiz_id |-> "quiz_1"]
        IN  Invoke("apply_quiz_revisions", a, e, apply_quiz_revisions(a, e),
                   validate_quiz_parameters(d))

AddGroupAnnouncement ==
    \E det \in AnnouncementDetails, e \in SessionEnvs :
        LET a == [session_id |-> SessionId,
                  group_id |-> "grp_1",
                  announcement_details |-> det]
        IN  Invoke("add_group_announcement", a, e, add_group_announcement(a, e), NoValidation)

Next ==
    \/ GetMaterials
    \/ ReadContent
    \/ GenerateQuiz
    \/ ApplyQuizRevisions
    \/ AddGroupAnnouncement

Spec == Init /\ [][Next]_vars

(***************************************************************************)
(* Invocations that run at the same time.  The tools are plain functions:  *)
(* every name they assign (token, url, headers, response, data, text) is a *)
(* local of the invocation, and the module-level names they read           *)
(* (BACKEND_BASE_URL, BACKEND_AUDIENCE) are set once at import.  Each      *)
(* invocation advances from one blocking call to the next, and the steps   *)
(* of different invocations interleave in any order.  `response` keeps the *)
(* answer most recently received from the backend by any invocation.       *)
(***************************************************************************)
RequestCall(method, sid, e) ==
    [args |-> [data |-> IF upper(method) \in {"POST", "PUT"} THEN [text |-> <<"H", "i">>]
                        ELSE NoData,
               method |-> method,
               endpoint |-> <<"/api/v1/materials/module/", "mod_1">>,
               session_id |-> sid],
     kind |-> "make_authenticated_request",
     env |-> e]

ReadCall(url, e) ==
    [args |-> [session_id |-> SessionId, file_url |-> url],
     kind |-> "read_content_file_from_URL",
     env |-> e]

Answering(status) ==
    [sa_file |-> FALSE,
     token_ok |-> TRUE,
     backend |-> [text |-> <<"{", "}">>, kind |-> "response", status |-> status]]

ConcurrentCalls ==
    { RequestCall("GET", "sess_1", Answering(200)),
      RequestCall("post", "sess_2", Answering(404)),
      RequestCall("PATCH", "sess_1", Answering(200)),
      RequestCall("GET", "sess_2", [sa_file |-> FALSE, token_ok |-> FALSE, backend |-> NoAnswer]),
      RequestCall("PUT", "sess_2",
                  [sa_file |-> FALSE,
                   token_ok |-> TRUE,
                   backend |-> [text |-> <<>>, kind |-> "transport_error", status |-> 0]]) }
    \cup {ReadCall(<<"gs", ":", "/", "/", "bucket1", "/", "path", "/", "file", ".pdf">>, e) :
            e \in {x \in SessionReadEnvs :
                    /\ x.pdf.kind = "pages" /\ x.pdf.pages # <<>>
                    /\ x.storage.data \in {<<>>, <<"%", "P", "D", "F", "-">>}
                    /\ x.storage.kind \in {"client_error", "data"}
                    /\ x.http.kind = "transport_error"}}
    \cup {ReadCall(<<"https", ":", "/", "/", "example.com", "/", "doc", ".txt">>, e) :
            e \in {x \in SessionReadEnvs :
                    /\ x.pdf.kind = "pages" /\ x.pdf.pages # <<>>
                    /\ x.http.kind = "response"
                    /\ x.http.status \in {200, 404}
                    /\ x.http.content = <<"h", "xFF">>}}

\* Another invocation is between its first and its last step.
Overlaps(w) == \E v \in Workers \ {w} : inflight[v].pc \notin {"idle", "done"}

Step(w, locals) ==
    inflight' = [inflight EXCEPT ![w] = [locals EXCEPT !.overlapped = @ \/ Overlaps(w)]]

Finish(w, me, r) == Step(w, [me EXCEPT !.pc = "done", !.effects = r.effects, !.result = r])

\* The answer Response.raise_for_status() and response.text are taken from,
\* were `response` a module-level name.
local_response_module_level(w) == response

\* Lines 104-117: the local `response` of the invocation.
local_response(w) == inflight[w].response

\* A tool is invoked.
CBegin(w) ==
    /\ inflight[w].pc = "idle"
    /\ \E c \in ConcurrentCalls :
        Step(w, [Idle EXCEPT !.call = c,
                             !.pc = IF c.kind = "make_authenticated_request"
                                    THEN "get_service_token" ELSE "fetch"])
    /\ UNCHANGED response

\* Line 96.
FetchedToken(w, me, t) ==
    IF t.raised THEN Finish(w, me, Raised("CredentialError", "unset", NoResponse, t.effects))
    ELSE Step(w, [me EXCEPT !.pc = "send", !.token = t.token, !.effects = t.effects])

CFetchToken(w) ==
    /\ inflight[w].pc = "get_service_token"
    /\ FetchedToken(w, inflight[w], get_service_token(inflight[w].call.env))
    /\ UNCHANGED response

\* Lines 97-114: the request goes out and the answer, if any, comes back.
Sent(w, me, a, b) ==
    IF upper(a.method) \notin SupportedMethods
    THEN /\ Finish(w, me, Raised("ValueError", me.token, NoResponse, me.effects))
         /\ UNCHANGED response
    ELSE /\ Step(w, [me EXCEPT
                        !.pc = "received",
                        !.effects = @ \o <<BackendRequest(a.endpoint, a.method, a.session_id,
                                                          a.data, me.token)>>,
                        !.response = IF b.kind = "transport_error" THEN NoResponse ELSE b])
         /\ response' = IF b.kind = "transport_error" THEN response ELSE b

CSend(w) ==
    /\ inflight[w].pc = "send"
    /\ Sent(w, inflight[w], inflight[w].call.args, inflight[w].call.env.backend)

\* Lines 116-136.
Answered(w, me, r) ==
    Finish(w, me,
           IF r.kind = "unset"
           THEN Returned(FailureEnvelope(<<>>, <<>>, <<"ConnectionError">>),
                         me.token, NoResponse, me.effects)
           ELSE IF raise_for_status(r.status)
           THEN Returned(FailureEnvelope(<<r.status>>, r.text, <<"HTTPError">>),
                         me.token, r, me.effects)
           ELSE Returned(RawText(r.text), me.token, r, me.effects))

CReturn(w) ==
    /\ inflight[w].pc = "received"
    /\ Answered(w, inflight[w], local_response(w))
    /\ UNCHANGED response

ReadFailed(exception, resp, eff) ==
    Returned(RawText(<<"Error reading file: ", exception>>), "unset", resp, eff)

\* Lines 10-15 and 28-30 of content_reader.py, under the try of server.py 315-318.
Fetched(w, me, url, loc, st, h) ==
    IF ~loc.none /\ loc.bucket # <<>> /\ loc.blob # <<>>
    THEN IF st.kind = "client_error"
         THEN Finish(w, me, ReadFailed("DefaultCredentialsError", NoResponse, <<>>))
         ELSE IF st.kind = "download_error"
         THEN Finish(w, me, ReadFailed("NotFound", NoResponse,
                        << [op |-> "storage_read", bucket |-> loc.bucket, blob |-> loc.blob] >>))
         ELSE Step(w, [me EXCEPT
                         !.pc = "decode",
                         !.data = st.data,
                         !.effects = << [op |-> "storage_read",
                                         bucket |-> loc.bucket,
                                         blob |-> loc.blob] >>])
    ELSE IF urlsplit(url).scheme \notin {"http", "https"}
         THEN Finish(w, me, ReadFailed("InvalidSchema", NoResponse, <<>>))
         ELSE IF h.kind = "transport_error"
         THEN Finish(w, me, ReadFailed("ConnectionError", NoResponse,
                        << [op |-> "http_get", url |-> url, timeout |-> 30] >>))
         ELSE IF raise_for_status(h.status)
         THEN Finish(w, me, ReadFailed("HTTPError", h,
                        << [op |-> "http_get", url |-> url, timeout |-> 30] >>))
         ELSE Step(w, [me EXCEPT
                         !.pc = "decode",
                         !.data = h.content,
                         !.response = h,
                         !.effects = << [op |-> "http_get", url |-> url, timeout |-> 30] >>])

CFetch(w) ==
    /\ inflight[w].pc = "fetch"
    /\ Fetched(w, inflight[w], inflight[w].call.args.file_url,
               parse_storage_url(inflight[w].call.args.file_url),
               inflight[w].call.env.storage, inflight[w].call.env.http)
    /\ UNCHANGED response

\* Lines 16-26 and 31-42 of content_reader.py.
Decoded(w, me, try_pdf, pdf) ==
    Finish(w, me, Returned(RawText(text_of(me.data, try_pdf, pdf)),
                           "unset", me.response, me.effects \o extraction(try_pdf)))

CDecode(w) ==
    /\ inflight[w].pc = "decode"
    /\ Decoded(w, inflight[w],
               \/ is_pdf_bytes(inflight[w].data)
               \/ ends_with_pdf(inflight[w].call.args.file_url)
               \/ /\ inflight[w].response.kind = "response"
                  /\ is_pdf_content_type(inflight[w].response.headers),
               inflight[w].call.env.pdf)
    /\ UNCHANGED response

\* What an invocation in flight leaves alone: the record of the last
\* invocation that ran by itself.
Untouched == UNCHANGED <<tool, args, outcome, result, validation, token, effects, world, session>>

Begin == Untouched /\ \E w \in Workers : CBegin(w)
FetchToken == Untouched /\ \E w \in Workers : CFetchToken(w)
Send == Untouched /\ \E w \in Workers : CSend(w)
Return == Untouched /\ \E w \in Workers : CReturn(w)
Fetch == Untouched /\ \E w \in Workers : CFetch(w)
Decode == Untouched /\ \E w \in Workers : CDecode(w)

NextConcurrent ==
    \/ Begin
    \/ FetchToken
    \/ Send
    \/ Return
    \/ Fetch
    \/ Decode

SpecConcurrent == Init /\ [][NextConcurrent]_vars

(***************************************************************************)
(* Properties.                                                             *)
(***************************************************************************)
Range(seq) == {seq[i] : i \in 1..Len(seq)}

BackendTools ==
    {"get_the_required_materials_in_a_module", "generate_quiz", "apply_quiz_revisions",
     "add_group_announcement"}

WriteTools == {"generate_quiz", "apply_quiz_revisions"}

IsFailureEnvelope(r) == r.kind = "json" /\ r.value.success = FALSE

\* C1: when the parameters of generate_quiz or apply_quiz_revisions fail
\* validation with at least one error, the invocation fetches no credential
\* and sends nothing to the backend, and it returns the success:false envelope
\* whose details are the validation errors.
C1_InvalidDraftStaysLocal ==
    (tool \in WriteTools /\ ~validation.raised /\ Len(validation.errors) >= 1)
        => /\ Count(effects, "get_service_token") = 0
           /\ Count(effects, "backend") = 0
           /\ outcome = "returned"
           /\ IsFailureEnvelope(result)
           /\ result.value.details = validation.errors

\* A create whose draft breaks several rules has returned its itemized errors.
C1_Witness ==
    /\ tool = "generate_quiz"
    /\ Len(validation.errors) >= 3
    /\ outcome = "returned"
    /\ result.kind = "json"
    /\ result.value.details = validation.errors

C3_CredentialFailureIsCaught ==
    (tool \in BackendTools /\ Count(effects, "get_service_token") >= 1 /\ ~world.token_ok)
        => outcome = "returned" /\ IsFailureEnvelope(result)

\* C4: one invocation of a backend-facing tool fetches the credential at most
\* once and sends at most one request to the backend; one invocation of the
\* read-content tool performs at most one storage read or one HTTP GET, and no
\* backend request.
C4_AtMostOneCallEach ==
    /\ tool \in BackendTools
        => /\ Count(effects, "get_service_token") <= 1
           /\ Count(effects, "backend") <= 1
    /\ tool = "read_content_file_from_URL"
        => /\ Count(effects, "storage_read") + Count(effects, "http_get") <= 1
           /\ Count(effects, "backend") = 0

\* A revise has fetched one credential and then sent its one request.
C4_Witness ==
    /\ tool = "apply_quiz_revisions"
    /\ Len(effects) = 2
    /\ effects[1].op = "get_service_token"
    /\ effects[2].op = "backend"
    /\ effects[2].method = "PUT"

OnHttpPath == Count(effects, "http_get") = 1 /\ response.kind = "response"

Malformed(det) ==
    \/ det.json # "object"
    \/ "text" \notin DOMAIN det.value
    \/ strip(det.value.text) = <<>>

\* C6: for announcement_details that is no JSON, JSON that is no object, or an
\* object whose text is missing or blank, add_group_announcement returns a
\* success:false result, does not raise and sends nothing to the backend.
C6_MalformedDetailsAreReported ==
    (tool = "add_group_announcement" /\ Malformed(args.announcement_details))
        => /\ outcome = "returned"
           /\ IsFailureEnvelope(result)
           /\ Count(effects, "backend") = 0

\* C7 as stated: over a session, an announce request reaches the backend only
\* after a create or revise has succeeded, and at most once per successful
\* create or revise (announces that failed not counted).
C7_AsStated ==
    /\ session.announce_requests >= 1 => session.writes_ok >= 1
    /\ session.announces_ok <= session.writes_ok

\* C7 amended: an invocation of add_group_announcement sends exactly one
\* announce request to the backend when its details are a JSON object with a
\* non-blank text and the credential is obtained, and none otherwise, whatever
\* was created, revised or announced before in the session; no other tool
\* sends one.
C7_AnnounceDependsOnItsInputOnly ==
    [][ session'.announce_requests - session.announce_requests
            = IF /\ tool' = "add_group_announcement"
                 /\ ~Malformed(args'.announcement_details)
                 /\ world'.token_ok
              THEN 1 ELSE 0 ]_vars

\* Two announces have been accepted by the backend in a session without any
\* successful create or revise.
C7_Witness ==
    /\ tool = "add_group_announcement"
    /\ session.announces_ok = 2
    /\ session.writes_ok = 0

\* --- the validator -------------------------------------------------------
RECURSIVE SumPoints(_)
SumPoints(questions) ==
    IF questions = <<>> THEN 0
    ELSE (IF "point" \in DOMAIN Head(questions) THEN Head(questions).point.v ELSE 1000)
         + SumPoints(Tail(questions))

Blank(str) == \A i \in 1..Len(str) : str[i] \in Whitespace

When(cond, e) == IF cond THEN {e} ELSE {}

\* The errors the rules of the validator call for on draft d, rule by rule.
ViolatedRules(d) ==
    LET start == fromisoformat(d.start_at)
        end == fromisoformat(d.end_at)
        qs == d.questions
        opts(i) == IF "options" \in DOMAIN qs[i] THEN Len(qs[i].options) ELSE 0
    IN  When(Blank(d.title), Err("title_empty", 0, 0, 0))
        \cup When(d.total_marks <= 0, Err("marks_positive", 0, 0, 0))
        \cup When(d.duration_minutes <= 0, Err("duration_positive", 0, 0, 0))
        \cup When(~start.ok \/ ~end.ok, Err("date_format", 0, 0, 0))
        \cup When(start.ok /\ end.ok /\ Instant(start) >= Instant(end),
                  Err("start_before_end", 0, 0, 0))
        \cup When(qs = <<>>, Err("questions_required", 0, 0, 0))
        \cup {Err("text_required", i, 0, 0) :
                i \in {j \in 1..Len(qs) : "text" \notin DOMAIN qs[j] \/ Blank(qs[j].text)}}
        \cup {Err("options_min", i, 0, 0) : i \in {j \in 1..Len(qs) : opts(j) < 2}}
        \cup {Err("correct_index", i, 0, 0) :
                i \in {j \in 1..Len(qs) :
                        \/ "correctOptionIndex" \notin DOMAIN qs[j]
                        \/ qs[j].correctOptionIndex \notin 0..(opts(j) - 1)}}
        \cup {Err("point_positive", i, 0, 0) :
                i \in {j \in 1..Len(qs) : "point" \in DOMAIN qs[j] /\ qs[j].point.v <= 0}}
        \cup When(qs # <<>> /\ Abs(SumPoints(qs) - d.total_marks) > Tolerance,
                  Err("point_sum", 0, SumPoints(qs), d.total_marks))
        \cup When(d.module_ids = <<>>, Err("module_required", 0, 0, 0))

Validated == tool = "validate_quiz_parameters" /\ ~validation.raised

\* C8: the result of validation has valid = true exactly when its error list
\* is empty, and every rule the draft violates has its error in the list
\* (validation does not stop at the first failure).
C8_ValidIffNoErrorsAndAllCollected ==
    Validated
        => /\ validation.valid <=> validation.errors = <<>>
           /\ \A e \in ViolatedRules(args) : e \in Range(validation.errors)

\* A draft that breaks a top-level rule, a per-question rule, the point sum
\* and the module rule at once has all four errors in its result.
C8_Witness ==
    /\ Validated
    /\ ~validation.valid
    /\ Err("title_empty", 0, 0, 0) \in Range(validation.errors)
    /\ Err("correct_index", 1, 0, 0) \in Range(validation.errors)
    /\ Err("module_required", 0, 0, 0) \in Range(validation.errors)
    /\ \E e \in Range(validation.errors) : e.rule = "point_sum"

PointSumErrors == {i \in 1..Len(validation.errors) : validation.errors[i].rule = "point_sum"}

\* C9: for a draft with a non-empty question list, validation reports exactly
\* one point-sum error, naming the accumulated total and totalMarks, if and
\* only if the accumulated points differ from totalMarks by more than 0.01;
\* valid is then false.
C9_PointSumError ==
    (Validated /\ args.questions # <<>>)
        => IF Abs(SumPoints(args.questions) - args.total_marks) > Tolerance
           THEN /\ Cardinality(PointSumErrors) = 1
                /\ \A i \in PointSumErrors :
                     /\ validation.errors[i].total = SumPoints(args.questions)
                     /\ validation.errors[i].marks = args.total_marks
                /\ ~validation.valid
           ELSE PointSumErrors = {}

\* totalMarks = 10 with points summing to 9.5: the one error of the result is
\* the point-sum error naming 9.5 and 10.
C9_Witness ==
    /\ Validated
    /\ args.total_marks = 10000
    /\ SumPoints(args.questions) = 9500
    /\ validation.errors = <<Err("point_sum", 0, 9500, 10000)>>
    /\ ~validation.valid

HasText(q) == "text" \in DOMAIN q /\ ~Blank(q.text)

\* C10: when a question's text equals the text of an earlier question of the
\* list, validation reports a duplicate-text error for the later question (and
\* for it only).
C10_DuplicateTextIsReported ==
    Validated
        => \A i \in 1..Len(args.questions) :
             (HasText(args.questions[i])
              /\ \E j \in 1..(i - 1) : HasText(args.questions[j])
                                       /\ args.questions[j].text = args.questions[i].text)
                <=> (\E e \in Range(validation.errors) : e.rule = "duplicate_text" /\ e.q = i)

StartOf(d) == fromisoformat(d.start_at)
EndOf(d) == fromisoformat(d.end_at)

StartBeforeEndReported == Err("start_before_end", 0, 0, 0) \in Range(validation.errors)

\* C11: for every pair of parseable timestamps, validation returns, and it
\* reports the start-must-be-before-end error exactly when startAt is equal to
\* or after endAt.
C11_StartEndOrdering ==
    (tool = "validate_quiz_parameters" /\ StartOf(args).ok /\ EndOf(args).ok
     /\ \A i \in 1..Len(args.questions) : ~PointRaises(args.questions[i]))
        => /\ ~validation.raised
           /\ (StartOf(args).aware = EndOf(args).aware)
                => (StartBeforeEndReported
                        <=> Instant(StartOf(args)) >= Instant(EndOf(args)))

ReadDoneFor(url) == tool = "read_content_file_from_URL" /\ args.file_url = url

\* C12: for every URL in one of the four object-storage shapes,
\* parse_storage_url returns exactly the bucket and the key (slashes kept, the
\* Firebase key percent-decoded), and that object is the one the read fetches.
C12_SupportedShapesResolve ==
    \A s \in StorageShapes, b \in Buckets :
        \A k \in KeysOf(s) :
            ReadDoneFor(ShapeUrl(s, b, k))
                => /\ parse_storage_url(args.file_url) = Located(b, k)
                   /\ Count(effects, "http_get") = 0
                   /\ \A i \in 1..Len(effects) :
                        effects[i].op = "storage_read"
                            => effects[i].bucket = b /\ effects[i].blob = k

\* A Firebase URL whose key holds an encoded slash and an encoded space has
\* been read from the bucket under the decoded key.
C12_Witness ==
    /\ ReadDoneFor(ShapeUrl("firebase", <<"bucket1">>, <<"dir", "/", "my", " ", "file">>))
    /\ Count(effects, "storage_read") = 1
    /\ effects[1].bucket = <<"bucket1">>
    /\ effects[1].blob = <<"dir", "/", "my", " ", "file">>

\* C13: for every URL, parse_storage_url returns a non-empty bucket with a
\* non-empty key, or no bucket and no key; a storage reference without a key
\* (gs://bucket, storage.googleapis.com/bucket/) gives no bucket and no key.
C13_BothOrNeither ==
    tool = "read_content_file_from_URL"
        => LET loc == parse_storage_url(args.file_url)
           IN  \/ loc = NotStorage
               \/ ~loc.none /\ loc.bucket # <<>> /\ loc.blob # <<>>

PdfSignature(b) == Len(b) >= 4 /\ b[1] = "%" /\ b[2] = "P" /\ b[3] = "D" /\ b[4] = "F"

EndsInPdf(url) == url # <<>> /\ url[Len(url)] \in {".pdf", ".PDF"}

PdfContentType(h) ==
    /\ "Content-Type" \in DOMAIN h
    /\ h["Content-Type"] # <<>>
    /\ h["Content-Type"][1] \in {"application/pdf", "Application/PDF"}

ReadDoneTool == tool = "read_content_file_from_URL"

\* The bytes have been fetched: from the bucket, or with a response that is
\* not an error status.
StorageFetched == ReadDoneTool /\ Count(effects, "storage_read") = 1 /\ world.storage.kind = "data"
HttpFetched == ReadDoneTool /\ OnHttpPath /\ ~(400 <= response.status /\ response.status < 600)

ExtractionAttempted == Count(effects, "pdf_extract") > 0

\* C14: PDF extraction is attempted if and only if the fetched bytes start
\* with %PDF, or the URL ends in .pdf whatever its case, or, on the generic
\* HTTP path only, the Content-Type header starts with the media type
\* application/pdf; without fetched bytes it is not attempted.
C14_ExtractionTrigger ==
    /\ StorageFetched
        => (ExtractionAttempted
                <=> PdfSignature(world.storage.data) \/ EndsInPdf(args.file_url))
    /\ HttpFetched
        => (ExtractionAttempted
                <=> \/ PdfSignature(response.content)
                    \/ EndsInPdf(args.file_url)
                    \/ PdfContentType(response.headers))
    /\ (ReadDoneTool /\ ~StorageFetched /\ ~HttpFetched) => ~ExtractionAttempted
    /\ Count(effects, "pdf_extract") <= 1

\* Bytes that are not a PDF, fetched from a storage URL ending in .PDF, have
\* been given to the extraction.
C14_Witness ==
    /\ StorageFetched
    /\ ExtractionAttempted
    /\ ~PdfSignature(world.storage.data)
    /\ args.file_url[Len(args.file_url)] = ".PDF"

FetchedBytes == IF StorageFetched THEN world.storage.data ELSE response.content

\* UTF-8 decoding that replaces what is not valid.
Utf8OrReplacement(b) == [i \in 1..Len(b) |-> IF b[i] = "xFF" THEN "U+FFFD" ELSE b[i]]

\* The text of the pages, joined by blank lines, without the whitespace
\* around it; empty when the reader rejects the bytes.
ExtractedText == IF world.pdf.kind = "raises" THEN <<>> ELSE strip(join_pages(world.pdf.pages))

\* C15: once the bytes are fetched the read returns a string: the extracted
\* text when extraction was attempted and gave a non-empty text, else
\* (not attempted, failed, or empty) the UTF-8 decoding of the bytes, with
\* replacement characters where they are not valid; the failure of an
\* extraction is never the result.
C15_TextOrDecodedBytes ==
    (StorageFetched \/ HttpFetched)
        => /\ outcome = "returned"
           /\ result.kind = "text"
           /\ result.value = IF ExtractionAttempted /\ ExtractedText # <<>>
                             THEN ExtractedText
                             ELSE Utf8OrReplacement(FetchedBytes)

\* Bytes with the PDF signature whose pages hold only whitespace: extraction
\* was attempted, gave nothing, and the decoded bytes came back.
C15_Witness ==
    /\ StorageFetched
    /\ ExtractionAttempted
    /\ world.pdf.kind = "pages"
    /\ world.pdf.pages # <<>>
    /\ ExtractedText = <<>>
    /\ result.value = world.storage.data

\* Bytes that are not valid UTF-8 after an extraction that failed: the result
\* holds the replacement character.
C15_WitnessReplacement ==
    /\ HttpFetched
    /\ ExtractionAttempted
    /\ world.pdf.kind = "raises"
    /\ result.value = <<"h", "U+FFFD">>

TopLevelRules == {"title_empty", "marks_positive", "duration_positive", "date_format",
                  "questions_required", "module_required"}
PerQuestionRules == {"text_required", "options_min", "correct_index", "point_positive"}
CrossFieldRules == {"point_sum", "start_before_end"}

\* The place of a rule in the order of the checks: top-level fields, then
\* the questions, then the cross-field checks.
Stage(e) ==
    IF e.rule \in TopLevelRules THEN 1 ELSE IF e.rule \in PerQuestionRules THEN 2 ELSE 3

\* C16: the errors of a validation are in the order of the checks: the
\* top-level field errors, then the per-question errors by ascending question
\* index, then the cross-field errors (point sum, start before end); no
\* cross-field error comes before a per-question error.
C16_ErrorOrder ==
    Validated
        => \A i, j \in 1..Len(validation.errors) :
             i < j => /\ Stage(validation.errors[i]) <= Stage(validation.errors[j])
                      /\ (Stage(validation.errors[i]) = 2 /\ Stage(validation.errors[j]) = 2)
                            => validation.errors[i].q <= validation.errors[j].q

PointOf(q) == IF "point" \in DOMAIN q THEN q.point ELSE PyNum(1000)

PositivePoint(q) == PointOf(q).type = "number" /\ PointOf(q).v > 0

\* The total of the points that are positive numbers.
RECURSIVE PositiveSum(_)
PositiveSum(questions) ==
    IF questions = <<>> THEN 0
    ELSE (IF PositivePoint(Head(questions)) THEN PointOf(Head(questions)).v ELSE 0)
         + PositiveSum(Tail(questions))

DatesComparable ==
    (StartOf(args).ok /\ EndOf(args).ok) => StartOf(args).aware = EndOf(args).aware

\* C17: validation reports a point error for every question whose point is
\* not a positive number and leaves that point out of the running total: the
\* point-sum check compares the total of the positive points with totalMarks.
C17_OnlyPositivePointsCount ==
    (tool = "validate_quiz_parameters" /\ DatesComparable)
        => /\ ~validation.raised
           /\ \A i \in 1..Len(args.questions) :
                ~PositivePoint(args.questions[i])
                    => Err("point_positive", i, 0, 0) \in Range(validation.errors)
           /\ args.questions # <<>>
                => /\ PointSumErrors # {}
                        <=> Abs(PositiveSum(args.questions) - args.total_marks) > Tolerance
                   /\ \A i \in PointSumErrors :
                        validation.errors[i].total = PositiveSum(args.questions)

\* The invocation run alone, from its first to its last line.
Alone(c) ==
    IF c.kind = "make_authenticated_request"
    THEN make_authenticated_request(c.args.endpoint, c.args.method, c.args.session_id,
                                    c.args.data, c.env)
    ELSE read_content_file_from_URL(c.args, c.env)

\* C18: when invocations run concurrently, under every interleaving of their
\* steps the result of each and the requests it sent are those of the same
\* invocation run alone: no state written by one is read by another.
C18_SameAsAlone ==
    \A w \in Workers :
        inflight[w].pc = "done"
            => /\ inflight[w].result = Alone(inflight[w].call)
               /\ inflight[w].effects = Alone(inflight[w].call).effects

\* Two invocations that overlapped, one answered 404 and one answered 200 by
\* the backend, have both ended, the first after the second was answered.
C18_Witness ==
    \E w, v \in Workers :
        /\ w # v
        /\ inflight[w].pc = "done" /\ inflight[v].pc = "done"
        /\ inflight[w].overlapped /\ inflight[v].overlapped
        /\ inflight[w].response.status = 404
        /\ inflight[w].result.value.kind = "json"
        /\ inflight[v].response.status = 200
        /\ inflight[v].result.value.kind = "text"
        /\ inflight[v].call.kind = "make_authenticated_request"
        /\ inflight[w].call.kind = "make_authenticated_request"

====
